---- MODULE Spec2Model ----
(***************************************************************************)
(* State-machine model of ApkBuilderGUI (src/app.py): the command planner  *)
(* start_mode, the callback-chained process runner execute_next /          *)
(* on_output / on_finished / on_process_error, the artifact clean-up and   *)
(* the UI callbacks that share the settings mapping with them.             *)
(*                                                                         *)
(* Strings are sequences of symbols.  A symbol is either one of the        *)
(* characters the code inspects ("/", "\\", ".", " ", the double quote,    *)
(* ":", a digit) or an indivisible run of other characters ("apktool").    *)
(* Python's None and '' are both the empty sequence: every test the code   *)
(* makes on a value that can be None is a truthiness test.                 *)
(*                                                                         *)
(* config.yaml is read once, by load_settings in __init__, and is part of  *)
(* the initial state only: save_settings writes a file the running program *)
(* never reads again.                                                      *)
(***************************************************************************)
EXTENDS Integers, Sequences, FiniteSets, TLC

\* ------------------------------------------------------------------ bounds
\* Run clicks explored in one behaviour.
MaxClicks == 2
\* Console lines that on_output appends during one run.
MaxSignals == 1

\* ----------------------------------------------------------------- strings
None == <<>>
Truthy(x) == x # <<>>
Quote == "\""

Last(s) == s[Len(s)]

RECURSIVE JoinWith(_, _)
\* sep.join(parts)
JoinWith(sep, parts) ==
    IF parts = <<>> THEN <<>>
    ELSE IF Len(parts) = 1 THEN parts[1]
    ELSE parts[1] \o sep \o JoinWith(sep, Tail(parts))

\* c in s
Contains(s, c) == \E i \in 1..Len(s) : s[i] = c

\* s.startswith(c) for a one-symbol c
StartsWith(s, c) == Len(s) > 0 /\ s[1] = c

\* str.lower() on the symbols the inputs use
LowerSym(c) ==
    CASE c = "BAT" -> "bat"
      [] c = "APKTOOL" -> "apktool"
      [] OTHER -> c

Lower(s) == [i \in 1..Len(s) |-> LowerSym(s[i])]

\* s.endswith('.bat')
EndsWithBat(s) ==
    Len(s) >= 2 /\ s[Len(s) - 1] = "." /\ s[Len(s)] = "bat"

IsSpace(c) == c \in {" ", "\n", "\t"}

RECURSIVE LStrip(_)
LStrip(s) == IF s # <<>> /\ IsSpace(Head(s)) THEN LStrip(Tail(s)) ELSE s

RECURSIVE RStrip(_)
RStrip(s) ==
    IF s # <<>> /\ IsSpace(Last(s)) THEN RStrip(SubSeq(s, 1, Len(s) - 1)) ELSE s

\* str.strip()
Strip(s) == LStrip(RStrip(s))

\* ------------------------------------------------------------------- paths
\* os.path of the running platform: posixpath, or ntpath when win (paths
\* without a drive letter).
IsSep(win, c) == c = "/" \/ (win /\ c = "\\")

OsSep(win) == IF win THEN "\\" ELSE "/"

\* 1-based index of the last separator of p, 0 when there is none
RFindSep(win, p) ==
    LET hits == {i \in 1..Len(p) : IsSep(win, p[i])}
    IN  IF hits = {} THEN 0 ELSE CHOOSE i \in hits : \A j \in hits : j <= i

\* 1-based index of the last "." of p, 0 when there is none
RFindDot(p) ==
    LET hits == {i \in 1..Len(p) : p[i] = "."}
    IN  IF hits = {} THEN 0 ELSE CHOOSE i \in hits : \A j \in hits : j <= i

RECURSIVE RStripSep(_, _)
RStripSep(win, s) ==
    IF s # <<>> /\ IsSep(win, Last(s))
    THEN RStripSep(win, SubSeq(s, 1, Len(s) - 1))
    ELSE s

\* os.path.basename
Basename(win, p) == SubSeq(p, RFindSep(win, p) + 1, Len(p))

\* os.path.dirname
Dirname(win, p) ==
    LET head == SubSeq(p, 1, RFindSep(win, p))
        cut == RStripSep(win, head)
    IN  IF cut # <<>> THEN cut ELSE head

\* os.path.splitext(p)[0]
SplitextRoot(win, p) ==
    LET sepI == RFindSep(win, p)
        dotI == RFindDot(p)
    IN  IF dotI > sepI /\ \E k \in (sepI + 1)..(dotI - 1) : p[k] # "."
        THEN SubSeq(p, 1, dotI - 1)
        ELSE p

\* os.path.join(a, b)
PathJoin(win, a, b) ==
    IF b # <<>> /\ IsSep(win, b[1]) THEN b
    ELSE IF a # <<>> /\ ~IsSep(win, Last(a)) THEN a \o <<OsSep(win)>> \o b
    ELSE a \o b

RECURSIVE SplitSep(_, _, _)
\* p.split(sep), with cur the component being read
SplitSep(win, p, cur) ==
    IF p = <<>> THEN <<cur>>
    ELSE IF IsSep(win, Head(p)) THEN <<cur>> \o SplitSep(win, Tail(p), <<>>)
    ELSE SplitSep(win, Tail(p), Append(cur, Head(p)))

RECURSIVE NormComps(_, _, _)
\* the component loop of normpath: drops '' and '.', resolves '..'
NormComps(comps, new, rooted) ==
    IF comps = <<>> THEN new
    ELSE LET c == Head(comps)
             rest == Tail(comps)
         IN  IF c = <<>> \/ c = <<".">> THEN NormComps(rest, new, rooted)
             ELSE IF c # <<".", ".">>
                     \/ (~rooted /\ new = <<>>)
                     \/ (new # <<>> /\ Last(new) = <<".", ".">>)
                  THEN NormComps(rest, Append(new, c), rooted)
             ELSE IF new # <<>>
                  THEN NormComps(rest, SubSeq(new, 1, Len(new) - 1), rooted)
             ELSE NormComps(rest, new, rooted)

\* os.path.normpath
Normpath(win, p) ==
    LET sep == OsSep(win)
        rooted == p # <<>> /\ IsSep(win, p[1])
        two == ~win /\ Len(p) >= 2 /\ p[1] = "/" /\ p[2] = "/"
               /\ ~(Len(p) >= 3 /\ p[3] = "/")
        prefix == IF ~rooted THEN <<>> ELSE IF two THEN <<sep, sep>> ELSE <<sep>>
        body == JoinWith(<<sep>>, NormComps(SplitSep(win, p, <<>>), <<>>, rooted))
        out == prefix \o body
    IN  IF out = <<>> THEN <<".">> ELSE out

\* ---------------------------------------------------------------- settings
\* self.settings as __init__ builds it, before load_settings
DefaultSettings ==
    [dump_file |-> <<>>, dump_out |-> <<>>, pack_dir |-> <<>>,
     keystore_path |-> <<>>, keystore_pass |-> <<>>, keystore_out |-> <<>>,
     sdk_path |-> <<>>]

\* dict.update
Update(s, d) ==
    [k \in DOMAIN s \cup DOMAIN d |-> IF k \in DOMAIN d THEN d[k] ELSE s[k]]

\* Paths the file pickers and the persisted settings offer.
ApkPath == <<"/", "t", "/", "app", ".", "apk">>
TmpApkPath == <<"/", "tmp", "/", "app", ".", "apk">>
ProjPath == <<"/", "x", "/", "MyApp">>
KsPath == <<"/", "k", ".", "jks">>
KsOutPath == <<"/", "n", ".", "jks">>
SdkPath == <<"/", "s", " ", "d">>
Password == <<"pw">>
Alias == <<"key">>

\* Mappings config.yaml can hold when the program starts; the empty mapping
\* stands for a missing or unreadable file too (load_settings ignores both).
ConfigFiles ==
    { [k \in {} |-> <<>>],
      [dump_file |-> TmpApkPath, dump_out |-> <<"/", "out">>,
       gen_alias |-> Alias, gen_alias_pass |-> <<>>],
      [dump_file |-> ApkPath, dump_out |-> <<"/", "t">>, pack_dir |-> ProjPath,
       keystore_path |-> KsPath, keystore_pass |-> Password,
       keystore_out |-> KsOutPath, gen_alias |-> Alias,
       gen_alias_pass |-> Password] }

\* load_settings
LoadSettings(file) == Update(DefaultSettings, file)

\* ------------------------------------------------------------ tool locator
\* What shutil.which can answer for each name.
ApktoolPath == <<"/", "b", "/", "apktool">>
ApktoolBatPath == <<"/", "b", "/", "apktool", ".", "BAT">>
JavaPath == <<"/", "j", "/", "java">>
\* which('apktool'), which('apktool.bat'), which('java') and whether
\* apktool.jar lies beside the script
Lookups ==
    { [apktool |-> None, bat |-> None, java |-> None, jar |-> FALSE],
      [apktool |-> ApktoolPath, bat |-> None, java |-> JavaPath, jar |-> FALSE] }

\* What os.listdir(<sdk>/build-tools) can answer: the directory is missing,
\* or it holds these entries.
Listings ==
    { [exists |-> FALSE, names |-> {}],
      [exists |-> TRUE, names |-> {<<"2", "9">>, <<"3", "0">>}] }

\* a or b
PyOr(a, b) == IF Truthy(a) THEN a ELSE b

ToolNeverMissing(apktool) == FALSE
\* if not apktool: (line 240)
ToolMissing(apktool) == ~Truthy(apktool)

\* executor, lines 245-251
Executor(win, apktool, java, jarIsFile) ==
    IF EndsWithBat(Lower(apktool)) /\ Truthy(java)
    THEN IF jarIsFile
         THEN <<java, <<"-jar">>,
                PathJoin(win, Dirname(win, apktool), <<"apktool", ".", "jar">>)>>
         ELSE <<apktool>>
    ELSE <<apktool>>

\* ord() of the symbols that entry names of build-tools use
Ord(c) ==
    CASE c = "." -> 46 [] c = "0" -> 48 [] c = "1" -> 49 [] c = "2" -> 50
      [] c = "3" -> 51 [] c = "4" -> 52 [] c = "5" -> 53 [] c = "6" -> 54
      [] c = "7" -> 55 [] c = "8" -> 56 [] c = "9" -> 57

RECURSIVE StrLess(_, _)
\* a < b on str
StrLess(a, b) ==
    IF b = <<>> THEN FALSE
    ELSE IF a = <<>> THEN TRUE
    ELSE IF Head(a) # Head(b) THEN Ord(Head(a)) < Ord(Head(b))
    ELSE StrLess(Tail(a), Tail(b))

OldestBuildTools(names) ==
    CHOOSE n \in names : \A m \in names : m = n \/ StrLess(n, m)
\* sorted(names, reverse=True)[0]
NewestBuildTools(names) ==
    CHOOSE n \in names : \A m \in names : m = n \/ StrLess(m, n)

\* os.listdir raises when the directory is missing, [0] when it is empty
ListingRaises(bt) == ~bt.exists \/ bt.names = {}

\* za, asgn of lines 282-290
SdkTools(win, sdkroot, bt) ==
    IF Truthy(sdkroot)
    THEN LET tools == PathJoin(win, PathJoin(win, sdkroot, <<"build-tools">>),
                               NewestBuildTools(bt.names))
             ext == IF win THEN <<".", "exe">> ELSE <<>>
         IN  [za |-> PathJoin(win, tools, <<"zipalign">> \o ext),
              asgn |-> PathJoin(win, tools, <<"apksigner">> \o ext)]
    ELSE [za |-> <<"zipalign">>, asgn |-> <<"apksigner">>]

\* wrap, for the str it is called with
Wrap(cmd) ==
    LET quoted == IF Contains(cmd, " ") /\ ~StartsWith(cmd, Quote)
                  THEN <<Quote>> \o cmd \o <<Quote>>
                  ELSE cmd
    IN  <<<<"cmd">>, <<"/c">>, quoted>>

\* --------------------------------------------------------- command planner
\* if not apk or not out: (line 256)
DumpInvalid(s) == ~Truthy(s["dump_file"]) \/ ~Truthy(s["dump_out"])

PackInvalidNoPassword(s) ==
    ~Truthy(s["pack_dir"]) \/ ~Truthy(s["keystore_path"])
\* if not proj or not ks or not ksp: (line 268)
PackInvalid(s) ==
    ~Truthy(s["pack_dir"]) \/ ~Truthy(s["keystore_path"])
    \/ ~Truthy(s["keystore_pass"])

\* line 309 reads three keys; a key the mapping lacks raises KeyError
GenLookupRaises(s) ==
    ~({"keystore_out", "gen_alias", "gen_alias_pass"} \subseteq DOMAIN s)

\* if not kout or not alias or not apw: (line 310)
GenInvalid(s) ==
    ~Truthy(s["keystore_out"]) \/ ~Truthy(s["gen_alias"])
    \/ ~Truthy(s["gen_alias_pass"])

\* target, line 260
DumpTargetKeepsExtension(win, s) ==
    Normpath(win, PathJoin(win, s["dump_out"], Basename(win, s["dump_file"])))
DumpTarget(win, s) ==
    Normpath(win, PathJoin(win, s["dump_out"],
                           SplitextRoot(win, Basename(win, s["dump_file"]))))

DumpCommand(win, s, executor) ==
    executor \o << <<"d">>, <<"-f">>, s["dump_file"], <<"-o">>, DumpTarget(win, s) >>

\* outdir, apkname and the three derived paths, lines 273-294
PackOutdirInside(win, proj) == proj
PackOutdir(win, proj) == Dirname(win, proj)
PackApkName(win, proj) == SplitextRoot(win, Basename(win, proj)) \o <<".", "apk">>
BuiltPath(win, proj) ==
    Normpath(win, PathJoin(win, PackOutdir(win, proj), PackApkName(win, proj)))
AlignedPath(win, proj) ==
    Normpath(win, PathJoin(win, PackOutdir(win, proj),
                           <<"aligned_">> \o PackApkName(win, proj)))
SignedPath(win, proj) ==
    Normpath(win, PathJoin(win, PackOutdir(win, proj),
                           <<"signed_">> \o PackApkName(win, proj)))

PackCommands(win, s, executor, bt) ==
    LET proj == s["pack_dir"]
        t == SdkTools(win, s["sdk_path"], bt)
    IN  << executor \o << <<"b">>, proj, <<"-o">>, BuiltPath(win, proj) >>,
           Wrap(t.za) \o << <<"-v">>, <<"-p">>, <<"4">>,
                            BuiltPath(win, proj), AlignedPath(win, proj) >>,
           Wrap(t.asgn) \o << <<"sign">>, <<"-v">>, <<"--ks">>, s["keystore_path"],
                              <<"--ks-pass">>, <<"pass", ":">> \o s["keystore_pass"],
                              <<"--out">>, SignedPath(win, proj),
                              AlignedPath(win, proj) >> >>

GenCommand(s) ==
    << <<"keytool">>, <<"-genkey">>, <<"-v">>, <<"-keystore">>, s["keystore_out"],
       <<"-alias">>, s["gen_alias"], <<"-keyalg">>, <<"RSA">>,
       <<"-keysize">>, <<"2048">>, <<"-validity">>, <<"10000">>,
       <<"-storepass">>, s["gen_alias_pass"], <<"-keypass">>, s["gen_alias_pass"] >>

\* What start_mode has done when it returns, raises or reaches line 325:
\*   outcome  "toolmissing" | "invalid" | "raised" | "planned"
\*   commands self.commands; built, aligned self.built_apk, self.aligned_apk
\*   mkdir    the directory os.makedirs was called with, None when not called
PlanResult(outcome, commands, built, aligned, mkdir) ==
    [outcome |-> outcome, commands |-> commands, built |-> built,
     aligned |-> aligned, mkdir |-> mkdir]

\* lines 231-323
Plan(win, mode, s, apktool, java, jarIsFile, bt) ==
    IF ToolMissing(apktool) THEN PlanResult("toolmissing", <<>>, None, None, None)
    ELSE LET executor == Executor(win, apktool, java, jarIsFile) IN
      IF mode = 0 THEN
        IF DumpInvalid(s) THEN PlanResult("invalid", <<>>, None, None, None)
        ELSE PlanResult("planned", <<DumpCommand(win, s, executor)>>, None, None,
                        DumpTarget(win, s))
      ELSE IF mode = 1 THEN
        IF PackInvalid(s) THEN PlanResult("invalid", <<>>, None, None, None)
        ELSE IF Truthy(s["sdk_path"]) /\ ListingRaises(bt)
             \* line 284 raises after the first command was appended
             THEN PlanResult("raised",
                             SubSeq(PackCommands(win, s, executor,
                                                 [exists |-> TRUE,
                                                  names |-> {<<"0">>}]), 1, 1),
                             BuiltPath(win, s["pack_dir"]), None, None)
        ELSE PlanResult("planned", PackCommands(win, s, executor, bt),
                        BuiltPath(win, s["pack_dir"]),
                        AlignedPath(win, s["pack_dir"]), None)
      ELSE
        IF GenLookupRaises(s) THEN PlanResult("raised", <<>>, None, None, None)
        ELSE IF GenInvalid(s) THEN PlanResult("invalid", <<>>, None, None, None)
        ELSE PlanResult("planned", <<GenCommand(s)>>, None, None, None)

\* ------------------------------------------------------------------- state
VARIABLES
    win,            \* platform.system() == 'Windows'
    settings,       \* self.settings
    mode,           \* self.stack.currentIndex(): 0 Dump, 1 Pack, 2 Keystore
    run_enabled,    \* self.run_button.isEnabled()
    commands,       \* self.commands
    current_index,  \* self.current_index
    built_apk,      \* self.built_apk
    aligned_apk,    \* self.aligned_apk
    cur,            \* which QProcess self.process is: the click that made it, 0 none
    procs,          \* the QProcess objects made so far, by the click that made them
    events,         \* since the last console.clear(): the console lines, with the
                    \* dialogs, process.start calls and os.remove calls between them
    files,          \* regular files that exist
    dirs,           \* directories os.makedirs has made
    clicks,         \* Run clicks so far
    call,           \* what the last start_mode call was given and how it ended
    alive,          \* the application has not been aborted
    planned         \* PlanSpec: the Pack queues planned so far, with their inputs

vars ==
    <<win, settings, mode, run_enabled, commands, current_index, built_apk,
      aligned_apk, cur, procs, events, files, dirs, clicks, call, alive, planned>>

Modes == {0, 1, 2}
ProcIds == 1..MaxClicks

\* QProcess: state(), the command (1-based) it was last started with, the
\* file that command is told to write
NotRunning == [state |-> "NotRunning", cmd |-> 0, out |-> None]

InFlight(r) == procs[r].state # "NotRunning"

Event(kind, idx, text) == [kind |-> kind, idx |-> idx, text |-> text]

\* QProcess.ExitStatus, and the (exit code, exit status) pairs a process ends with
NormalExit == "0"
CrashExit == "1"
Exits == { <<"0", NormalExit>>, <<"1", NormalExit>>, <<"1", CrashExit>> }

\* Data a readyReadStandardOutput signal can carry.
Chunks == { <<"ok", "\n">>, <<" ", "\n">> }

Init ==
    /\ win \in BOOLEAN
    /\ settings \in {LoadSettings(file) : file \in ConfigFiles}
    /\ mode = 0
    /\ run_enabled = TRUE
    /\ commands = <<>>
    /\ current_index = 0
    /\ built_apk = None
    /\ aligned_apk = None
    /\ cur = 0
    /\ procs = [r \in ProcIds |-> NotRunning]
    /\ events = <<>>
    /\ files = {}
    /\ dirs = {}
    /\ clicks = 0
    /\ call = [mode |-> 0, tool |-> TRUE, reqEmpty |-> FALSE, outcome |-> "none"]
    /\ alive = TRUE
    /\ planned = <<>>

\* ------------------------------------------------------------ UI callbacks
\* switch_mode
SwitchMode(idx) ==
    /\ alive
    /\ mode' = idx
    /\ UNCHANGED <<win, settings, run_enabled, commands, current_index,
                   built_apk, aligned_apk, cur, procs, events, files, dirs,
                   clicks, call, alive, planned>>

\* the part of every select_* callback after the dialog returned path
Picked(path, updates) ==
    /\ alive
    /\ settings' = IF Truthy(path) THEN Update(settings, updates) ELSE settings
    /\ UNCHANGED <<win, mode, run_enabled, commands, current_index,
                   built_apk, aligned_apk, cur, procs, events, files, dirs,
                   clicks, call, alive, planned>>

SelectDumpFile(path) ==
    Picked(path, [dump_file |-> path, dump_out |-> Dirname(win, path)])

SelectPackDir(path) == Picked(path, [pack_dir |-> path])

SelectKeystoreFile(path) == Picked(path, [keystore_path |-> path])

SelectKeystoreOutput(path) == Picked(path, [keystore_out |-> path])

SelectSdkRoot(path) == Picked(path, [sdk_path |-> path])

\* ---------------------------------------------------------- process runner
\* self.run_button.setEnabled(False), line 227: the button while a run is on
ButtonStaysEnabled == TRUE
ButtonWhileProcessing == FALSE

\* self.current_index += 1, line 367
SkipIndex(i) == i + 2
NextIndex(i) == i + 1

\* lines 359-363: the console line, then the start call
StartBeforeEcho(echo, start) == <<start, echo>>
LaunchOrder(echo, start) == <<echo, start>>

\* The file a tool writes when run with cmd (the CLI shapes of the tools):
\* apktool d fills a directory; otherwise the path after -o, --out or
\* -keystore, or zipalign's last argument.
OutputOf(cmd) ==
    LET flags == {i \in 1..(Len(cmd) - 1) :
                    cmd[i] \in {<<"-o">>, <<"--out">>, <<"-keystore">>}}
    IN  IF \E i \in 1..Len(cmd) : cmd[i] = <<"d">> THEN None
        ELSE IF flags # {} THEN cmd[(CHOOSE i \in flags : TRUE) + 1]
        ELSE Last(cmd)

\* os.remove of lines 350-353, as the events and the files left
Removals(fs, built, aligned) ==
    (IF Truthy(built) /\ built \in fs THEN <<Event("remove", 0, built)>> ELSE <<>>)
    \o (IF Truthy(aligned) /\ aligned \in fs /\ aligned # built
        THEN <<Event("remove", 0, aligned)>> ELSE <<>>)

\* lines 347-353: the completion dialog, then the removals
CleanBeforeDone(done, rm) == rm \o <<done>>
CompletionOrder(done, rm) == <<done>> \o rm

\* if self.stack.currentIndex() == 1: (line 349)
CleansUp(modeNow) == modeNow = 1

\* on_process_error
OnProcessError(ev, idx, error) ==
    Append(ev, Event("procerror", idx, <<"Process launched failed, type error: ", error>>))

\* execute_next on the state R = [commands, index, built, aligned, events,
\* files, enabled, procs, cur, mode]; failSync: start() fails before it returns
ExecuteNext(R, failSync) ==
    IF R.index >= Len(R.commands)
    THEN LET rm == IF CleansUp(R.mode)
                   THEN Removals(R.files, R.built, R.aligned) ELSE <<>>
         IN  [R EXCEPT !.events = @ \o CompletionOrder(
                                            Event("done", 0, <<"All tasks completed">>), rm),
                       !.files = @ \ {rm[i].text : i \in 1..Len(rm)},
                       !.enabled = TRUE]
    ELSE LET k == R.index + 1
             cmd == R.commands[k]
             echo == Event("cmd", k, <<">> ">> \o JoinWith(<<" ">>, cmd))
             start == Event("start", k, <<>>)
             idle == R.procs[R.cur].state = "NotRunning"
             launched == R.events \o LaunchOrder(echo, start)
         IN  [R EXCEPT
                \* start() on a QProcess that is running only warns
                !.procs = IF ~idle THEN @
                          ELSE IF failSync THEN @
                          ELSE [@ EXCEPT ![R.cur] =
                                  [state |-> "Starting", cmd |-> k,
                                   out |-> OutputOf(cmd)]],
                !.events = IF idle /\ failSync
                           THEN OnProcessError(launched, k, "FailedToStart")
                           ELSE launched,
                !.index = NextIndex(R.index)]

\* the state execute_next works on
Now ==
    [commands |-> commands, index |-> current_index, built |-> built_apk,
     aligned |-> aligned_apk, events |-> events, files |-> files,
     enabled |-> run_enabled, procs |-> procs, cur |-> cur, mode |-> mode]

\* assigns what execute_next returned
Becomes(R) ==
    \E S \in {R} :
        /\ commands' = S.commands
        /\ current_index' = S.index
        /\ built_apk' = S.built
        /\ aligned_apk' = S.aligned
        /\ events' = S.events
        /\ files' = S.files
        /\ run_enabled' = S.enabled
        /\ procs' = S.procs
        /\ cur' = S.cur

\* a required field of the mode is empty, or the mapping does not hold it
Missing(s, k) == k \notin DOMAIN s \/ s[k] = <<>>

RequiredFields(m) ==
    IF m = 0 THEN {"dump_file", "dump_out"}
    ELSE IF m = 1 THEN {"pack_dir", "keystore_path", "keystore_pass"}
    ELSE {"keystore_out", "gen_alias", "gen_alias_pass"}

RequiredEmpty(m, s) == \E k \in RequiredFields(m) : Missing(s, k)

KeepIndex(i) == i
\* self.current_index = 0 (line 233)
ResetIndex(i) == 0

\* start_mode.  env: what shutil.which and os.path.isfile answer; bt: the
\* listing of build-tools; failSync: the first start() fails before it returns.
StartMode(env, bt, failSync) ==
    /\ alive
    /\ run_enabled
    /\ clicks < MaxClicks
    /\ LET id == clicks + 1
           apktool == PyOr(env.apktool, env.bat)
           p == Plan(win, mode, settings, apktool, env.java, env.jar, bt)
           cleared == <<>>
           R == [commands |-> p.commands, index |-> ResetIndex(current_index),
                 built |-> p.built,
                 aligned |-> p.aligned, events |-> cleared, files |-> files,
                 enabled |-> ButtonWhileProcessing, procs |-> procs, cur |-> cur,
                 mode |-> mode]
       IN  /\ clicks' = id
           /\ dirs' = IF Truthy(p.mkdir) THEN dirs \cup {p.mkdir} ELSE dirs
           /\ call' = [mode |-> mode, tool |-> Truthy(apktool),
                       reqEmpty |-> RequiredEmpty(mode, settings),
                       outcome |-> p.outcome]
           /\ CASE p.outcome = "toolmissing" ->
                     /\ Becomes([R EXCEPT
                           !.events = Append(@, Event("critical", 0,
                                <<"Please install apktool and add to PATH.">>)),
                           !.enabled = TRUE])
                     /\ alive' = alive
                [] p.outcome = "invalid" ->
                     /\ Becomes([R EXCEPT
                           !.events = Append(@, Event("warning", 0,
                                <<"Please fill in the fields.">>)),
                           !.enabled = TRUE])
                     /\ alive' = alive
                [] p.outcome = "raised" ->
                     \* an exception leaves the slot: PyQt5 aborts the
                     \* application, or prints the traceback and goes on
                     /\ Becomes([R EXCEPT !.events = Append(@, Event("raised", 0, <<>>))])
                     /\ alive' \in BOOLEAN
                [] p.outcome = "planned" ->
                     \* self.process = QProcess(self), then execute_next
                     /\ Becomes(ExecuteNext([R EXCEPT !.cur = id], failSync))
                     /\ alive' = alive
    /\ UNCHANGED <<win, settings, mode, planned>>

\* QProcess reaches Running (the started signal has no slot)
ProcStarted(r) ==
    /\ alive
    /\ procs[r].state = "Starting"
    /\ procs' = [procs EXCEPT ![r].state = "Running"]
    /\ UNCHANGED <<win, settings, mode, run_enabled, commands,
                   current_index, built_apk, aligned_apk, cur, events, files,
                   dirs, clicks, call, alive, planned>>

\* errorOccurred(FailedToStart) after start() returned: on_process_error.
\* QProcess emits no finished signal for a process that never started.  On
\* Windows the failure is reported inside start() (failSync of ExecuteNext).
ProcFailedToStart(r) ==
    /\ alive
    /\ ~win
    /\ procs[r].state = "Starting"
    /\ procs' = [procs EXCEPT ![r] = NotRunning]
    /\ events' = OnProcessError(events, procs[r].cmd, "FailedToStart")
    /\ UNCHANGED <<win, settings, mode, run_enabled, commands,
                   current_index, built_apk, aligned_apk, cur, files, dirs,
                   clicks, call, alive, planned>>

IsOut(e) == e.kind = "out"

\* readyReadStandardOutput of process r: on_output, which reads self.process
OnOutput(r, data, decodes) ==
    /\ alive
    /\ procs[r].state = "Running"
    /\ Len(SelectSeq(events, IsOut)) < MaxSignals
    /\ LET read == IF r = cur THEN data ELSE <<>>
           k == procs[cur].cmd
       IN  events' = IF ~decodes THEN Append(events, Event("out", k, <<"> Error : ">>))
                     ELSE IF Strip(read) # <<>> THEN Append(events, Event("out", k, read))
                     ELSE events
    /\ UNCHANGED <<win, settings, mode, run_enabled, commands,
                   current_index, built_apk, aligned_apk, cur, procs, files,
                   dirs, clicks, call, alive, planned>>

\* on_finished calls execute_next whatever the exit code, line 386
ContinuesOnSuccessOnly(exit_code, exit_status) ==
    exit_code = "0" /\ exit_status = NormalExit
OnFinishedContinues(exit_code, exit_status) == TRUE

\* the tool leaves its output file when it succeeds
Wrote(exit_code, exit_status) == exit_code = "0" /\ exit_status = NormalExit

\* Process r ends: after a crash errorOccurred(Crashed) first, then
\* finished(exit_code, exit_status): on_finished.  failSync: the start() of
\* the next command fails before it returns.
ProcFinished(r, exit_code, exit_status, failSync) ==
    /\ alive
    /\ procs[r].state = "Running"
    /\ LET k == procs[r].cmd
           ev1 == IF exit_status = CrashExit
                  THEN OnProcessError(events, k, "Crashed") ELSE events
           ev2 == Append(ev1, Event("finished", k,
                     <<"[Finished] exitCode=", exit_code,
                       ", status=", exit_status>>))
           R == [Now EXCEPT
                    !.procs = [procs EXCEPT ![r] = NotRunning],
                    !.files = IF Wrote(exit_code, exit_status) /\ Truthy(procs[r].out)
                              THEN @ \cup {procs[r].out} ELSE @,
                    !.events = ev2]
       IN  IF OnFinishedContinues(exit_code, exit_status)
           THEN Becomes(ExecuteNext(R, failSync))
           ELSE Becomes(R)
    /\ UNCHANGED <<win, settings, mode, dirs, clicks, call, alive, planned>>

\* ---------------------------------------------------------- specification
Click ==
    \E env \in Lookups, bt \in Listings, failSync \in BOOLEAN :
        StartMode(env, bt, failSync)

Finished ==
    \E r \in ProcIds, exit \in Exits, failSync \in BOOLEAN :
        ProcFinished(r, exit[1], exit[2], failSync)

Output == \E r \in ProcIds, data \in Chunks, decodes \in BOOLEAN : OnOutput(r, data, decodes)

Next ==
    \/ \E idx \in Modes : SwitchMode(idx)
    \/ \E path \in {<<>>, ApkPath} : SelectDumpFile(path)
    \/ \E path \in {<<>>, ProjPath} : SelectPackDir(path)
    \/ \E path \in {<<>>, KsPath} : SelectKeystoreFile(path)
    \/ \E path \in {<<>>, KsOutPath} : SelectKeystoreOutput(path)
    \/ \E path \in {<<>>, SdkPath} : SelectSdkRoot(path)
    \/ Click
    \/ \E r \in ProcIds : ProcStarted(r)
    \/ \E r \in ProcIds : ProcFailedToStart(r)
    \/ Output
    \/ Finished

Spec == Init /\ [][Next]_vars

\* ------------------------------------------------- planning the Pack queue
\* The Pack branch of start_mode as a function of what it reads: the
\* settings, the answers of shutil.which and os.path.isfile, and the listing
\* of build-tools.  Each step plans one queue and records it with its inputs.
MaxPlans == 2

DottedProjPath == <<"/", "x", "/", "My", ".", "App">>
RelativeProjPath == <<"MyApp">>
PlainSdkPath == <<"/", "sdk">>

PlanSettings ==
    { Update(DefaultSettings,
             [pack_dir |-> proj, keystore_path |-> ks, keystore_pass |-> Password,
              sdk_path |-> sdk]) :
        proj \in {ProjPath, DottedProjPath, RelativeProjPath},
        ks \in {KsPath, KsOutPath},
        sdk \in {None, SdkPath, PlainSdkPath} }

PlanLookups ==
    Lookups \cup
    { [apktool |-> None, bat |-> ApktoolBatPath, java |-> JavaPath, jar |-> TRUE] }

PlanListings ==
    Listings \cup
    { [exists |-> TRUE, names |-> {}],
      [exists |-> TRUE, names |-> {<<"2", "9", ".", "0", ".", "2">>,
                                   <<"3", "0", ".", "0", ".", "3">>,
                                   <<"2", "8", ".", "0", ".", "3">>}],
      [exists |-> TRUE, names |-> {<<"3", "0">>, <<"9">>}] }

PlanInit == Init /\ settings = DefaultSettings

PlanStep(s, env, bt) ==
    /\ Len(planned) < MaxPlans
    /\ planned' = Append(planned,
           [settings |-> s, listing |-> bt,
            plan |-> Plan(win, 1, s, PyOr(env.apktool, env.bat), env.java,
                          env.jar, bt)])
    /\ UNCHANGED <<win, settings, mode, run_enabled, commands, current_index,
                   built_apk, aligned_apk, cur, procs, events, files, dirs,
                   clicks, call, alive>>

PlanNext ==
    \E s \in PlanSettings, env \in PlanLookups, bt \in PlanListings :
        PlanStep(s, env, bt)

PlanSpec == PlanInit /\ [][PlanNext]_vars

\* ------------------------------------------------------------------ claims
Positions(kind) == {i \in 1..Len(events) : events[i].kind = kind}
IsFinished(e) == e.kind = "finished"
NoneInFlight == \A r \in ProcIds : ~InFlight(r)
Echo(i) == <<">> ">> \o JoinWith(<<" ">>, commands[i])
FailedToStartAt(j) ==
    events[j].kind = "procerror" /\ events[j].text[2] = "FailedToStart"

\* C1: when the completion notification fires, the 'finished' lines reported
\* before it are exactly one per command of the queue, the k-th for the k-th
\* command, and the notification fires at most once in a run.
C1_FinishedBeforeDone ==
    /\ Cardinality(Positions("done")) <= 1
    /\ \A d \in Positions("done") :
         LET fin == SelectSeq(SubSeq(events, 1, d - 1), IsFinished)
         IN  /\ Len(fin) = Len(commands)
             /\ \A k \in 1..Len(fin) : fin[k].idx = k
             /\ \A f \in Positions("finished") : f < d

C1_Witness ==
    /\ Positions("done") # {}
    /\ Len(commands) = 3
    /\ \E f \in Positions("finished") : events[f].text[2] = "1"

\* C2: at most one external process is in flight, whichever QProcess object
\* of whichever run it belongs to.
C2_AtMostOneInFlight == Cardinality({r \in ProcIds : InFlight(r)}) <= 1

C2_Witness == clicks = 2 /\ cur = 2 /\ procs[2].state = "Running" /\ procs[2].cmd = 2

\* C3: each command's echo precedes its launch; its output lines follow its
\* launch and precede its 'finished' line; and its 'finished' line precedes
\* the launch of the next command: the lines of a run are in queue order.
C3_QueueOrder ==
    /\ \A j \in Positions("start") :
         LET i == events[j].idx
         IN  /\ \E k \in 1..(j - 1) : events[k] = Event("cmd", i, Echo(i))
             /\ i > 1 => \E f \in 1..(j - 1) :
                            events[f].kind = "finished" /\ events[f].idx = i - 1
    /\ \A o \in Positions("out") :
         /\ \E j \in 1..(o - 1) : events[j] = Event("start", events[o].idx, <<>>)
         /\ \A f \in Positions("finished") : events[f].idx = events[o].idx => o < f
    /\ \A a, b \in 1..Len(events) :
         (a < b /\ events[a].idx # 0 /\ events[b].idx # 0)
            => events[a].idx <= events[b].idx

C3_Witness ==
    /\ \E o \in Positions("out") : events[o].idx = 1
    /\ \E j \in Positions("start") : events[j].idx = 3

\* C4: the cleaner removes the built and the aligned apk, each if it exists,
\* if and only if the run was started in Pack mode and its queue has drained;
\* it removes nothing else and nothing in any other case.
C4_CleanerIffPackDrained ==
    LET drained == Positions("done") # {}
        removed == {events[i].text : i \in Positions("remove")}
    IN  /\ removed \subseteq {built_apk, aligned_apk}
        /\ (drained /\ call.mode = 1) => (built_apk \notin files /\ aligned_apk \notin files)
        /\ ~(drained /\ call.mode = 1) => removed = {}

\* C5: a run that has launched its first command and whose processes have all
\* delivered their terminating signal has shown the completion notification
\* and re-enabled Run.
C5_RunCompletes ==
    (Positions("start") # {} /\ NoneInFlight)
        => (Positions("done") # {} /\ run_enabled)

\* C6: once a launch failure of command i is reported, the index is past i,
\* and the run has gone on: command i+1 was launched if there is one, the run
\* completed if not.
C6_LaunchFailureContinues ==
    \A j \in 1..Len(events) :
        FailedToStartAt(j) =>
            LET i == events[j].idx
            IN  /\ current_index >= i
                /\ NoneInFlight =>
                     \E k \in (j + 1)..Len(events) :
                        IF i < Len(commands)
                        THEN events[k] = Event("start", i + 1, <<>>)
                        ELSE events[k].kind = "done"

\* C7: after a Run click made with a required field of the mode empty, the
\* queue is empty, the click has made no QProcess, nothing was launched and
\* neither the completion notification nor a removal has happened.
C7_EmptyFieldNoQueue ==
    (clicks > 0 /\ call.reqEmpty) =>
        /\ commands = <<>>
        /\ cur # clicks
        /\ NoneInFlight
        /\ Positions("start") = {} /\ Positions("done") = {}
        /\ Positions("remove") = {}

C7_Witness ==
    /\ clicks = 2 /\ call.reqEmpty /\ call.tool /\ call.mode = 1
    /\ Truthy(settings["pack_dir"]) /\ Truthy(settings["keystore_path"])

\* C8: after a Run click that fails validation (the tool was found, a
\* required field is empty), an error dialog was shown and the Run control
\* is enabled again in a running application.
C8_ValidationRecoverable ==
    (clicks > 0 /\ call.tool /\ call.reqEmpty) =>
        /\ alive
        /\ run_enabled
        /\ Positions("warning") # {}

\* C9: a Run click that does not find the tool queues no command, makes no
\* QProcess, launches nothing, creates no directory, shows the error and
\* leaves the Run control enabled.
C9_ToolNotFoundAborts ==
    [][(clicks' = clicks + 1 /\ ~call'.tool) =>
          /\ commands' = <<>>
          /\ cur' = cur /\ procs' = procs
          /\ dirs' = dirs /\ files' = files
          /\ Positions("critical")' # {} /\ Positions("start")' = {}
          /\ run_enabled'
          /\ alive']_vars

C9_Witness ==
    /\ clicks = 2 /\ ~call.tool /\ call.mode = 0 /\ ~call.reqEmpty
    /\ dirs = {}

\* C10: every 'finished' line, whatever exit code and status it reports, is
\* the only one of its command and is directly followed by the echo and the
\* launch of the next command of the queue, or by the completion
\* notification when its command was the last.
C10_NonZeroExitContinues ==
    \A j \in Positions("finished") :
        LET i == events[j].idx
        IN  /\ \A f \in Positions("finished") : events[f].idx = i => f = j
            /\ j < Len(events)
            /\ IF i < Len(commands)
               THEN /\ j + 2 <= Len(events)
                    /\ events[j + 1] = Event("cmd", i + 1, Echo(i + 1))
                    /\ events[j + 2] = Event("start", i + 1, <<>>)
               ELSE events[j + 1].kind = "done"

C10_Witness ==
    \E j \in Positions("finished") :
        /\ events[j].text[2] = "1"
        /\ j + 2 <= Len(events)
        /\ events[j + 2].kind = "start"
        /\ \E d \in Positions("done") : d > j

C12_PackQueueChained ==
    (clicks > 0 /\ call.mode = 1 /\ call.tool /\ ~call.reqEmpty) =>
        /\ Len(commands) = 3
        /\ LET asm == commands[1]
               aln == commands[2]
               sgn == commands[3]
           IN  /\ asm[Len(asm) - 3] = <<"b">>
               /\ asm[Len(asm) - 1] = <<"-o">>
               /\ aln[Len(aln) - 1] = asm[Len(asm)]
               /\ sgn[Len(sgn) - 2] = <<"--out">>
               /\ sgn[Len(sgn)] = aln[Len(aln)]
               /\ built_apk = asm[Len(asm)]
               /\ aligned_apk = aln[Len(aln)]

\* C13: a command of the queue is in shell-invocation form (cmd /c program
\* ...) only when its program token contains whitespace, and then the
\* program token is quoted; every other command is queued, and so launched,
\* with its program token first and unmodified.
C13_WrapOnlyWhitespace ==
    \A i \in 1..Len(commands) :
        LET c == commands[i]
        IN  (Len(c) >= 3 /\ c[1] = <<"cmd">> /\ c[2] = <<"/c">>) =>
                /\ Contains(c[3], " ")
                /\ StartsWith(c[3], Quote)
                /\ Last(c[3]) = Quote

PlanCompleted(i) == planned[i].plan.outcome = "planned"

\* The assemble output, the align output and the sign output as the queue of
\* the i-th plan names them.
QueuedPaths(i) ==
    LET q == planned[i].plan.commands
    IN  <<Last(q[1]), Last(q[2]), q[3][Len(q[3]) - 1]>>

\* C14: two planned Pack queues for the same project directory name the same
\* built, aligned and signed paths, and record the same built_apk and
\* aligned_apk, whatever keystore, SDK root, tool locations and build-tools
\* listing each was planned with; with POSIX paths the project /x/MyApp gives
\* /x/MyApp.apk, /x/aligned_MyApp.apk and /x/signed_MyApp.apk.
C14_PathsFromProjectAlone ==
    /\ \A i, j \in 1..Len(planned) :
           ( /\ PlanCompleted(i) /\ PlanCompleted(j)
             /\ planned[i].settings["pack_dir"] = planned[j].settings["pack_dir"] )
           => /\ QueuedPaths(i) = QueuedPaths(j)
              /\ planned[i].plan.built = planned[j].plan.built
              /\ planned[i].plan.aligned = planned[j].plan.aligned
    /\ \A i \in 1..Len(planned) :
           PlanCompleted(i) =>
               /\ planned[i].plan.built = QueuedPaths(i)[1]
               /\ planned[i].plan.aligned = QueuedPaths(i)[2]
               /\ (~win /\ planned[i].settings["pack_dir"] = <<"/", "x", "/", "MyApp">>)
                  => QueuedPaths(i) =
                        << <<"/", "x", "/", "MyApp", ".", "apk">>,
                           <<"/", "x", "/", "aligned_", "MyApp", ".", "apk">>,
                           <<"/", "x", "/", "signed_", "MyApp", ".", "apk">> >>

C14_Witness ==
    /\ ~win
    /\ Len(planned) = 2
    /\ PlanCompleted(1) /\ PlanCompleted(2)
    /\ planned[1].settings["pack_dir"] = <<"/", "x", "/", "MyApp">>
    /\ planned[2].settings["pack_dir"] = <<"/", "x", "/", "MyApp">>
    /\ planned[1].settings["keystore_path"] # planned[2].settings["keystore_path"]
    /\ planned[1].settings["sdk_path"] = <<>>
    /\ planned[2].settings["sdk_path"] # <<>>
    /\ planned[1].plan.commands[1][1] # planned[2].plan.commands[1][1]
    /\ planned[2].plan.built = <<"/", "x", "/", "MyApp", ".", "apk">>

\* a > b on str, by the first position where they differ
PlainGreater(a, b) ==
    \E k \in 1..Len(a) :
        /\ \A j \in 1..(k - 1) : j <= Len(b) /\ a[j] = b[j]
        /\ k > Len(b) \/ (a[k] # b[k] /\ Ord(a[k]) > Ord(b[k]))

Unquoted(tok) ==
    IF Len(tok) >= 2 /\ tok[1] = Quote /\ Last(tok) = Quote
    THEN SubSeq(tok, 2, Len(tok) - 1)
    ELSE tok

\* The path of tool under the build-tools entry n of sdk.
ToolUnder(sdk, n, tool) ==
    LET sep == IF win THEN <<"\\">> ELSE <<"/">>
        ext == IF win THEN <<".", "exe">> ELSE <<>>
    IN  sdk \o sep \o <<"build-tools">> \o sep \o n \o sep \o <<tool>> \o ext

\* C15: in a planned Pack queue with an SDK root, the programs of the align
\* and sign commands are zipalign and apksigner under the entry of the
\* build-tools listing than which no entry is greater in plain string
\* comparison (30.0.3 of 29.0.2, 30.0.3, 28.0.3; and 9 of 30, 9); with no SDK
\* root they are the bare names zipalign and apksigner.
C15_NewestBuildTools ==
    \A i \in 1..Len(planned) :
        PlanCompleted(i) =>
            LET q == planned[i].plan.commands
                sdk == planned[i].settings["sdk_path"]
                names == planned[i].listing.names
                za == Unquoted(q[2][3])
                asgn == Unquoted(q[3][3])
            IN  IF sdk = <<>>
                THEN za = <<"zipalign">> /\ asgn = <<"apksigner">>
                ELSE /\ \E n \in names :
                            /\ \A m \in names : ~PlainGreater(m, n)
                            /\ za = ToolUnder(sdk, n, "zipalign")
                            /\ asgn = ToolUnder(sdk, n, "apksigner")
                     /\ <<"3", "0", ".", "0", ".", "3">> \in names
                        => za = ToolUnder(sdk, <<"3", "0", ".", "0", ".", "3">>,
                                          "zipalign")
                     /\ <<"9">> \in names => za = ToolUnder(sdk, <<"9">>, "zipalign")

C15_Witness ==
    /\ Len(planned) = 2
    /\ PlanCompleted(1) /\ PlanCompleted(2)
    /\ planned[1].settings["sdk_path"] = <<>>
    /\ planned[1].plan.commands[2][3] = <<"zipalign">>
    /\ planned[2].settings["sdk_path"] = <<"/", "sdk">>
    /\ Cardinality(planned[2].listing.names) = 3
    /\ planned[2].plan.commands[3][3] =
           ToolUnder(<<"/", "sdk">>, <<"3", "0", ".", "0", ".", "3">>, "apksigner")

\* The directory named app under the output directory out, as the platform
\* writes it.
ExpectedDumpTarget(out) ==
    CASE out = <<"/", "t">> ->
             IF win THEN <<"\\", "t", "\\", "app">> ELSE <<"/", "t", "/", "app">>
      [] out = <<"/", "out">> ->
             IF win THEN <<"\\", "out", "\\", "app">> ELSE <<"/", "out", "/", "app">>

IsStart(e) == e.kind = "start"

\* A command of the run has been launched and the completion notification
\* has not been shown.
RunInProgress == Positions("start") # {} /\ Positions("done") = {}

\* C17: while a run is in progress no step, whether a picker, a mode switch,
\* a Run click or a process signal, changes the command queue or the recorded
\* built and aligned paths, and the launches of a run are those of commands 1,
\* 2, 3, ... in this order, each at most once and with current_index advancing
\* by one at each launch.
C17_QueueFrozenDuringRun ==
    [][ /\ RunInProgress =>
              /\ commands' = commands
              /\ built_apk' = built_apk
              /\ aligned_apk' = aligned_apk
              /\ current_index' \in {current_index, current_index + 1}
        /\ LET starts == SelectSeq(events', IsStart)
           IN  /\ \A k \in 1..Len(starts) : starts[k].idx = k
               /\ Len(starts) = current_index'
      ]_vars

C17_Witness ==
    /\ RunInProgress
    /\ Len(commands) = 3 /\ current_index = 2
    /\ mode # call.mode
    /\ settings["sdk_path"] # <<>>
    /\ commands[2][3] = <<"zipalign">>
    /\ built_apk = <<"/", "x", "/", "MyApp", ".", "apk">>

\* C18: in every state 0 <= current_index <= len(commands); current_index is
\* the number of launches attempted since the Run click that built the
\* queue, and these launches are of commands 1..current_index, all inside the
\* queue; the completion notification is in the log only when current_index =
\* len(commands).
C18_IndexWithinQueue ==
    /\ current_index \in 0..Len(commands)
    /\ Cardinality(Positions("start")) = current_index
    /\ {events[j].idx : j \in Positions("start")} = 1..current_index
    /\ Positions("done") # {} => current_index = Len(commands)

C18_Witness ==
    /\ clicks = 2
    /\ Len(commands) = 3 /\ current_index = 3
    /\ Cardinality(Positions("start")) = 3
    /\ Positions("done") # {}

\* No process in flight and no command waiting to be launched.
Idle == NoneInFlight /\ current_index = Len(commands)

\* C19: whenever the Run control is enabled no process is in flight and no
\* command waits to be launched (the queue is empty or current_index is its
\* length); hence every Run click that start_mode serves, the only step that
\* resets the queue, the index and the intermediate paths, is taken in such a
\* state and never while a run is in progress.
C19_EnabledOnlyWhenIdle ==
    [][ /\ run_enabled => Idle
        /\ run_enabled' => Idle'
        /\ clicks' # clicks => run_enabled /\ Idle /\ ~RunInProgress
      ]_vars

C19_Witness ==
    /\ run_enabled
    /\ clicks = 2
    /\ Len(commands) = 3 /\ current_index = 3
    /\ Positions("done") # {}
    /\ NoneInFlight
    /\ call.mode = 1

\* C20: there is no stuck state: while the application is alive and the Run
\* control is disabled, a process is in flight, whose terminating signal
\* will continue the run; this includes the states after a Run click during
\* which the build-tools lookup or a settings-field lookup failed.
C20_NoStuckState ==
    (alive /\ ~run_enabled) => \E r \in ProcIds : InFlight(r)

====
